---- MODULE Spec2Model ----
(***************************************************************************)
(* A model of the STL scaler (src/components/stl-scaler.tsx and            *)
(* src/components/scale-controls.tsx): the file list, the scale state, the *)
(* export of one file (scaleAndDownloadFile) and the Download selected /   *)
(* Download all handlers with their suspension points.                     *)
(*                                                                         *)
(* Representation.                                                         *)
(*  - A buffer is a sequence of bytes (0..255); byte offset o of the code  *)
(*    is index o+1 of the sequence.                                        *)
(*  - A text and a file name are sequences of character codes.             *)
(*  - The scale state is a number of thousandths (scale 1 is 1000). Every  *)
(*    scale the model's inputs produce is a multiple of 1/8 (125           *)
(*    thousandths), which a binary64 holds exactly, so that the products   *)
(*    the code computes in binary64 are computed here exactly.             *)
(*  - A float32 read from a buffer is a record: [k |-> "fin", s, m, e] is  *)
(*    (-1)^s * m * 2^e, [k |-> "inf", s] and [k |-> "nan"] the specials.   *)
(***************************************************************************)
EXTENDS Integers, Sequences, FiniteSets, TLC

(***************************************************************************)
(* Sequences and small arithmetic helpers                                  *)
(***************************************************************************)
Pow2(n) == 2 ^ n

Pow10(n) == 10 ^ n

Max(a, b) == IF a >= b THEN a ELSE b

Abs(a) == IF a < 0 THEN -a ELSE a

RECURSIVE BitLength(_)
\* number of bits of m: 0 for 0, 1 for 1, 2 for 2..3, ...
BitLength(m) == IF m = 0 THEN 0 ELSE 1 + BitLength(m \div 2)

RECURSIVE FlattenRange(_, _, _)
\* the concatenation of ss[lo], ..., ss[hi], by halves
FlattenRange(ss, lo, hi) ==
    IF lo > hi THEN <<>>
    ELSE IF lo = hi THEN ss[lo]
    ELSE LET mid == (lo + hi) \div 2
         IN  FlattenRange(ss, lo, mid) \o FlattenRange(ss, mid + 1, hi)

Flatten(ss) == FlattenRange(ss, 1, Len(ss))

\* ArrayBuffer.prototype.slice(0): a new buffer with the same bytes
SliceCopy(buf) == SubSeq(buf, 1, Len(buf))

(***************************************************************************)
(* DataView: little-endian reads and writes                                *)
(***************************************************************************)
\* dataView.getUint32(off, true); the model's buffers keep the top byte
\* below 128 so that the value fits the model checker's integers
GetUint32(buf, off) ==
    buf[off + 1] + buf[off + 2] * 256 + buf[off + 3] * 65536 + buf[off + 4] * 16777216

\* a DataView access of 4 bytes at off throws RangeError outside the buffer
InRange4(buf, off) == off >= 0 /\ off + 4 <= Len(buf)

\* dataView.getFloat32(off, true): IEEE-754 binary32, little-endian
GetFloat32(buf, off) ==
    LET b0 == buf[off + 1]
        b1 == buf[off + 2]
        b2 == buf[off + 3]
        b3 == buf[off + 4]
        s == b3 \div 128
        bexp == (b3 % 128) * 2 + (b2 \div 128)
        frac == (b2 % 128) * 65536 + b1 * 256 + b0
    IN  IF bexp = 255
        THEN (IF frac = 0 THEN [k |-> "inf", s |-> s] ELSE [k |-> "nan"])
        ELSE IF bexp = 0
        THEN [k |-> "fin", s |-> s, m |-> frac, e |-> -149]
        ELSE [k |-> "fin", s |-> s, m |-> 8388608 + frac, e |-> bexp - 150]

\* x * scale in binary64, scale a number of thousandths that is a multiple
\* of 125: scale = (scale / 125) * 2^-3, and m * (scale / 125) < 2^53
MulScale(x, scaleValue) ==
    LET p == Abs(scaleValue) \div 125
        neg == IF scaleValue < 0 THEN 1 ELSE 0
    IN  IF x.k = "nan" THEN x
        ELSE IF x.k = "inf"
        THEN (IF p = 0 THEN [k |-> "nan"] ELSE [k |-> "inf", s |-> (x.s + neg) % 2])
        ELSE [k |-> "fin", s |-> (x.s + neg) % 2, m |-> x.m * p, e |-> x.e - 3]

\* m / 2^sh rounded to the nearest integer, ties to even
RoundShift(m, sh) ==
    LET d == Pow2(sh)
        q == m \div d
        r == m % d
    IN  IF 2 * r > d \/ (2 * r = d /\ q % 2 = 1) THEN q + 1 ELSE q

\* the 4 bytes of sign s, biased exponent bexp, fraction frac, little-endian
F32Bytes(s, bexp, frac) ==
    << frac % 256,
       (frac \div 256) % 256,
       (frac \div 65536) + (bexp % 2) * 128,
       s * 128 + bexp \div 2 >>

\* the bytes setFloat32 stores for a binary64 value: round to nearest
\* binary32, ties to even; overflow to infinity; NaN as the quiet NaN
Float32Bytes(x) ==
    IF x.k = "nan" THEN F32Bytes(0, 255, 4194304)
    ELSE IF x.k = "inf" THEN F32Bytes(x.s, 255, 0)
    ELSE IF x.m = 0 THEN F32Bytes(x.s, 0, 0)
    ELSE
        LET L == BitLength(x.m)
            E0 == Max(x.e + L - 24, -149)
            M0 == IF E0 <= x.e THEN x.m * Pow2(x.e - E0) ELSE RoundShift(x.m, E0 - x.e)
            carry == M0 = 16777216
            M == IF carry THEN 8388608 ELSE M0
            E == IF carry THEN E0 + 1 ELSE E0
            bexp == IF M < 8388608 THEN 0 ELSE E + 150
        IN  IF bexp >= 255 THEN F32Bytes(x.s, 255, 0)
            ELSE F32Bytes(x.s, bexp, M % 8388608)

\* newDataView.setFloat32(off, x, true)
SetFloat32(buf, off, x) ==
    SubSeq(buf, 1, off) \o Float32Bytes(x) \o SubSeq(buf, off + 5, Len(buf))

(***************************************************************************)
(* Text: TextDecoder, the vertex pattern, parseFloat, toFixed, Blob([text])*)
(***************************************************************************)
ReplacementChar == 65533

\* new TextDecoder().decode(buf): an ASCII byte is its character; a byte
\* >= 128 outside a well-formed UTF-8 sequence decodes to U+FFFD (the
\* model's buffers hold no well-formed multi-byte sequence and no BOM)
DecodeByte(b) == IF b < 128 THEN b ELSE ReplacementChar

TextDecode(buf) == SubSeq([i \in 1..Len(buf) |-> DecodeByte(buf[i])], 1, Len(buf))

\* the UTF-8 bytes a Blob holds for a string part
Utf8Char(c) == IF c < 128 THEN <<c>> ELSE <<239, 191, 189>>

TextEncode(text) == Flatten([i \in 1..Len(text) |-> Utf8Char(text[i])])

\* \s of the pattern, among the characters a decoded buffer can hold
IsSpace(c) == c \in {9, 10, 11, 12, 13, 32, 160}

IsDigit(c) == c >= 48 /\ c <= 57

\* [-\d.e+] under the i flag: - digit . e E +
IsNumChar(c) == IsDigit(c) \/ c \in {45, 46, 101, 69, 43}

ToLower(c) == IF c >= 65 /\ c <= 90 THEN c + 32 ELSE c

RECURSIVE SpaceRunEnd(_, _)
\* the first index >= i that holds no \s character
SpaceRunEnd(t, i) == IF i <= Len(t) /\ IsSpace(t[i]) THEN SpaceRunEnd(t, i + 1) ELSE i

RECURSIVE NumRunEnd(_, _)
\* the first index >= i that holds no [-\d.e+] character
NumRunEnd(t, i) == IF i <= Len(t) /\ IsNumChar(t[i]) THEN NumRunEnd(t, i + 1) ELSE i

RECURSIVE DigitRunEnd(_, _)
DigitRunEnd(t, i) == IF i <= Len(t) /\ IsDigit(t[i]) THEN DigitRunEnd(t, i + 1) ELSE i

KwVertex == <<118, 101, 114, 116, 101, 120>>

\* /vertex\s+([-\d.e+]+)\s+([-\d.e+]+)\s+([-\d.e+]+)/i tried at index i.
\* \s and [-\d.e+] are disjoint, so each greedy run is the only candidate.
MatchVertexAt(t, i) ==
    LET kw == i + 5 <= Len(t) /\ \A j \in 1..6 : ToLower(t[i + j - 1]) = KwVertex[j]
        x1 == SpaceRunEnd(t, i + 6)
        x2 == NumRunEnd(t, x1)
        y1 == SpaceRunEnd(t, x2)
        y2 == NumRunEnd(t, y1)
        z1 == SpaceRunEnd(t, y2)
        z2 == NumRunEnd(t, z1)
    IN  IF kw /\ x1 > i + 6 /\ x2 > x1 /\ y1 > x2 /\ y2 > y1 /\ z1 > y2 /\ z2 > z1
        THEN [ok |-> TRUE, x |-> SubSeq(t, x1, x2 - 1), y |-> SubSeq(t, y1, y2 - 1),
              z |-> SubSeq(t, z1, z2 - 1), next |-> z2]
        ELSE [ok |-> FALSE]

RECURSIVE DigitsValue(_)
DigitsValue(ds) ==
    IF ds = <<>> THEN 0 ELSE DigitsValue(SubSeq(ds, 1, Len(ds) - 1)) * 10 + (ds[Len(ds)] - 48)

\* Number.parseFloat(tok): the longest prefix that is a decimal literal
\* (sign, digits, fraction, exponent), NaN when it holds no digit.
\* The value is (-1)^neg * num * 10^dexp.
ParseFloat(tok) ==
    LET signed == Len(tok) >= 1 /\ tok[1] \in {43, 45}
        neg == Len(tok) >= 1 /\ tok[1] = 45
        p0 == IF signed THEN 2 ELSE 1
        a == DigitRunEnd(tok, p0)
        dot == a <= Len(tok) /\ tok[a] = 46
        b == IF dot THEN DigitRunEnd(tok, a + 1) ELSE a
        intDigits == SubSeq(tok, p0, a - 1)
        fracDigits == IF dot THEN SubSeq(tok, a + 1, b - 1) ELSE <<>>
        hasE == b <= Len(tok) /\ tok[b] \in {101, 69}
        esigned == hasE /\ b + 1 <= Len(tok) /\ tok[b + 1] \in {43, 45}
        eneg == esigned /\ tok[b + 1] = 45
        e0 == IF esigned THEN b + 2 ELSE b + 1
        e1 == IF hasE THEN DigitRunEnd(tok, e0) ELSE e0
        expv == IF hasE /\ e1 > e0 THEN DigitsValue(SubSeq(tok, e0, e1 - 1)) ELSE 0
    IN  IF intDigits = <<>> /\ fracDigits = <<>>
        THEN [nan |-> TRUE]
        ELSE [nan |-> FALSE, neg |-> neg, num |-> DigitsValue(intDigits \o fracDigits),
              dexp |-> (IF eneg THEN -expv ELSE expv) - Len(fracDigits)]

RECURSIVE Dec(_)
\* the decimal digits of a natural number
Dec(n) == IF n < 10 THEN <<48 + n>> ELSE Dec(n \div 10) \o <<48 + (n % 10)>>

\* n / d rounded to the nearest integer, ties to the larger one
RoundHalfUp(n, d) == n \div d + (IF 2 * (n % d) >= d THEN 1 ELSE 0)

\* (x * scale).toFixed(6) for x = ParseFloat(tok) and scale in thousandths:
\* the millionths of the product are x.num * scale * 10^(x.dexp + 3).
\* toFixed rounds the binary64 product, ties to the larger digit string;
\* the exact product is rounded here, which is the same wherever the product
\* is not a decimal tie that binary64 misses (the model's texts hold none).
ToFixed6(x, scaleValue) ==
    IF x.nan THEN <<78, 97, 78>>
    ELSE
        LET mag == x.num * Abs(scaleValue)
            sh == x.dexp + 3
            micro == IF sh >= 0 THEN mag * Pow10(sh) ELSE RoundHalfUp(mag, Pow10(-sh))
            negative == mag # 0 /\ (x.neg # (scaleValue < 0))
            fr == Dec(micro % 1000000)
            pad == [i \in 1..(6 - Len(fr)) |-> 48]
        IN  (IF negative THEN <<45>> ELSE <<>>) \o Dec(micro \div 1000000) \o <<46>> \o pad \o fr

\* the replacement callback of text.replace: `vertex ${..} ${..} ${..}`
VertexReplacement(m, scaleValue) ==
    KwVertex \o <<32>> \o ToFixed6(ParseFloat(m.x), scaleValue)
             \o <<32>> \o ToFixed6(ParseFloat(m.y), scaleValue)
             \o <<32>> \o ToFixed6(ParseFloat(m.z), scaleValue)

\* text.replace(/vertex.../gi, callback): the matches are found left to
\* right and do not overlap. No match can start inside another one (after
\* its keyword a match holds only \s and [-\d.e+] characters, none of which
\* is a "v"), so the matches are all the indices where the pattern matches;
\* each is replaced and every other character is kept.
ReplacePieces(t, m, scaleValue) ==
    [i \in 1..Len(t) |->
        IF m[i].ok THEN VertexReplacement(m[i], scaleValue)
        ELSE IF \E j \in 1..(i - 1) : m[j].ok /\ i < m[j].next THEN <<>>
        ELSE <<t[i]>>]

ReplaceVertices(t, scaleValue) ==
    Flatten(ReplacePieces(t, SubSeq([i \in 1..Len(t) |-> MatchVertexAt(t, i)], 1, Len(t)), scaleValue))

(***************************************************************************)
(* generateScaledFilename                                                  *)
(***************************************************************************)
RECURSIVE Split(_, _)
\* originalName.split(sep): the parts between the separators
Split(name, sep) ==
    IF \A i \in 1..Len(name) : name[i] # sep THEN <<name>>
    ELSE LET i == CHOOSE j \in 1..Len(name) :
                      name[j] = sep /\ \A h \in 1..(j - 1) : name[h] # sep
         IN  <<SubSeq(name, 1, i - 1)>> \o Split(SubSeq(name, i + 1, Len(name)), sep)

RECURSIVE Join(_, _)
\* nameParts.join(sep); the empty array joins to the empty string
Join(parts, sep) ==
    IF parts = <<>> THEN <<>>
    ELSE IF Len(parts) = 1 THEN parts[1]
    ELSE parts[1] \o <<sep>> \o Join(Tail(parts), sep)

\* Math.round(scaleValue * 100), scaleValue in thousandths (exact for the
\* multiples of 1/8 the model uses); Math.round rounds ties upwards
Percentage(scaleValue) == (scaleValue + 5) \div 10

\* "percent."
KwPercentDot == <<112, 101, 114, 99, 101, 110, 116, 46>>

\* mutant: the name is cut at its first dot
GenerateScaledFilenameFirstDot(originalName, scaleValue) ==
    LET nameParts == Split(originalName, 46)
    IN  nameParts[1] \o <<95>> \o Dec(Percentage(scaleValue)) \o KwPercentDot
                     \o nameParts[Len(nameParts)]

GenerateScaledFilename(originalName, scaleValue) ==
    LET nameParts == Split(originalName, 46)
        extension == nameParts[Len(nameParts)]
        baseName == Join(SubSeq(nameParts, 1, Len(nameParts) - 1), 46)
    IN  baseName \o <<95>> \o Dec(Percentage(scaleValue)) \o KwPercentDot \o extension

(***************************************************************************)
(* The files the user can pick: a name and the bytes File.arrayBuffer()    *)
(* resolves to. A File is immutable; the model holds it by its key.        *)
(***************************************************************************)
Zeros(n) == [i \in 1..n |-> 0]

\* little-endian uint32 of a small count
U32(n) == <<n % 256, (n \div 256) % 256, 0, 0>>

\* normal (0,0,1), vertices (0,0,0),(10,0,0),(0,10,0), attribute 0x0000
TriangleA ==
    << 0, 0, 0, 0, 0, 0, 0, 0, 0, 0, 128, 63, 0, 0, 0, 0, 0, 0, 0, 0,
       0, 0, 0, 0, 0, 0, 32, 65, 0, 0, 0, 0, 0, 0, 0, 0, 0, 0, 0, 0,
       0, 0, 32, 65, 0, 0, 0, 0, 0, 0 >>

\* the same triangle with attribute bytes 0x34 0x12
TriangleP1 == SubSeq(TriangleA, 1, 48) \o <<52, 18>>

\* normal (0.6,-0.8,0); vertices (0.1,-2.5,denormal 3*2^-149),
\* (largest float32, 1, -0), (3, 0.3, 16777215); attribute bytes 0xff 0x7f
TriangleP2 ==
    << 154, 153, 25, 63, 205, 204, 76, 191, 0, 0, 0, 0, 205, 204, 204, 61, 0, 0, 32, 192,
       3, 0, 0, 0, 255, 255, 127, 127, 0, 0, 128, 63, 0, 0, 0, 128, 0, 0, 64, 64,
       154, 153, 153, 62, 255, 255, 127, 75, 255, 127 >>

\* a header that starts with "solid" and holds a byte 0xff
HeaderP == <<115, 111, 108, 105, 100, 255>> \o Zeros(74)

\* "facet normal 0 0 1\nouter loop\nVERTEX 1.5 -2e1 .25\nvertex 0 0 0\n
\*  vertex 1 1 1\nendloop\n": 84 bytes of text
Text84 ==
    << 102, 97, 99, 101, 116, 32, 110, 111, 114, 109, 97, 108, 32, 48, 32, 48, 32, 49, 10, 111,
       117, 116, 101, 114, 32, 108, 111, 111, 112, 10, 86, 69, 82, 84, 69, 88, 32, 49, 46, 53,
       32, 45, 50, 101, 49, 32, 46, 50, 53, 10, 118, 101, 114, 116, 101, 120, 32, 48, 32, 48,
       32, 48, 10, 118, 101, 114, 116, 101, 120, 32, 49, 32, 49, 32, 49, 10, 101, 110, 100, 108,
       111, 111, 112, 10 >>

\* "solid t\nfacet normal 0 0 1\nouter loop\nvertex 1.000000 2.000000 3.000000\n
\*  vertex 0 0 0\nvertex 1 1 1\nendloop\nendfacet\nendsolid t\n": 126 bytes
TextB ==
    << 115, 111, 108, 105, 100, 32, 116, 10, 102, 97, 99, 101, 116, 32, 110, 111, 114, 109, 97, 108,
       32, 48, 32, 48, 32, 49, 10, 111, 117, 116, 101, 114, 32, 108, 111, 111, 112, 10, 118, 101,
       114, 116, 101, 120, 32, 49, 46, 48, 48, 48, 48, 48, 48, 32, 50, 46, 48, 48, 48, 48,
       48, 48, 32, 51, 46, 48, 48, 48, 48, 48, 48, 10, 118, 101, 114, 116, 101, 120, 32, 48,
       32, 48, 32, 48, 10, 118, 101, 114, 116, 101, 120, 32, 49, 32, 49, 32, 49, 10, 101, 110,
       100, 108, 111, 111, 112, 10, 101, 110, 100, 102, 97, 99, 101, 116, 10, 101, 110, 100, 115, 111,
       108, 105, 100, 32, 116, 10 >>

Disk ==
    [ a     |-> [name  |-> <<97, 46, 115, 116, 108>>,                          \* a.stl
                 bytes |-> Zeros(80) \o U32(1) \o TriangleA],
      part  |-> [name  |-> <<112, 97, 114, 116, 46, 118, 50, 46, 83, 84, 76>>, \* part.v2.STL
                 bytes |-> HeaderP \o U32(2) \o TriangleP1 \o TriangleP2],
      cut   |-> [name  |-> <<99, 117, 116, 46, 115, 116, 108>>,                \* cut.stl
                 bytes |-> Zeros(80) \o U32(2) \o TriangleA],
      near  |-> [name  |-> <<110, 101, 97, 114, 46, 115, 116, 108>>,           \* near.stl
                 bytes |-> Zeros(80) \o U32(1) \o SubSeq(TriangleA, 1, 48)],
      t84   |-> [name  |-> <<116, 56, 52, 46, 115, 116, 108>>,                 \* t84.stl
                 bytes |-> Text84],
      b     |-> [name  |-> <<98, 46, 115, 116, 108>>,                          \* b.stl
                 bytes |-> TextB],
      e     |-> [name  |-> <<101, 46, 115, 116, 108>>,                         \* e.stl
                 bytes |-> <<>>],
      notes |-> [name  |-> <<110, 111, 116, 101, 115, 46, 116, 120, 116>>,     \* notes.txt
                 bytes |-> <<110, 111, 116, 101, 115>>] ]

FileName(f) == Disk[f].name

\* await file.arrayBuffer(): a fresh buffer holding the file's bytes
FileArrayBuffer(f) == SliceCopy(Disk[f].bytes)

(***************************************************************************)
(* scaleAndDownloadFile                                                    *)
(***************************************************************************)
\* the three reads of one corner, each of which throws outside the buffer
VertexInRange(dataView, vertexOffset) ==
    /\ InRange4(dataView, vertexOffset)
    /\ InRange4(dataView, vertexOffset + 4)
    /\ InRange4(dataView, vertexOffset + 8)

\* mutant: the 12 bytes of the normal are not skipped
VertexOffsetFromRecordStart(offset, v) == offset + v * 12

\* the offset of corner v of the record at offset
VertexOffset(offset, v) == offset + 12 + v * 12

\* mutant: the third write stores y again instead of z
StoreVertexZFromY(bufs, vertexOffset, x, y, z) ==
    [bufs EXCEPT !.newBuffer =
        SetFloat32(SetFloat32(SetFloat32(@, vertexOffset, x), vertexOffset + 4, y),
                   vertexOffset + 8, y)]

\* mutant: newBuffer is arrayBuffer itself, not a copy, so the writes land
\* in the buffer that is read
StoreVertexInPlace(bufs, vertexOffset, x, y, z) ==
    LET written == SetFloat32(SetFloat32(SetFloat32(bufs.arrayBuffer, vertexOffset, x),
                                         vertexOffset + 4, y), vertexOffset + 8, z)
    IN  [bufs EXCEPT !.arrayBuffer = written, !.newBuffer = written]

\* the three writes of one corner: newDataView.setFloat32(...), on the copy
StoreVertex(bufs, vertexOffset, x, y, z) ==
    [bufs EXCEPT !.newBuffer =
        SetFloat32(SetFloat32(SetFloat32(@, vertexOffset, x), vertexOffset + 4, y),
                   vertexOffset + 8, z)]

\* the body of the inner loop for corner v; bufs.threw once a read threw
ScaleVertex(bufs, offset, v, scaleValue) ==
    LET vertexOffset == VertexOffset(offset, v)
    IN  IF bufs.threw THEN bufs
        ELSE IF ~VertexInRange(bufs.arrayBuffer, vertexOffset)
        THEN [bufs EXCEPT !.threw = TRUE]
        ELSE StoreVertex(bufs, vertexOffset,
                 MulScale(GetFloat32(bufs.arrayBuffer, vertexOffset), scaleValue),
                 MulScale(GetFloat32(bufs.arrayBuffer, vertexOffset + 4), scaleValue),
                 MulScale(GetFloat32(bufs.arrayBuffer, vertexOffset + 8), scaleValue))

RECURSIVE ScaleTriangles(_, _, _, _)
\* for (let i = ...; i < numTriangles; i++): the loop ends at the first throw
ScaleTriangles(bufs, i, numTriangles, scaleValue) ==
    IF bufs.threw \/ i >= numTriangles THEN bufs
    ELSE LET offset == 84 + i * 50
         IN  ScaleTriangles(
                 ScaleVertex(ScaleVertex(ScaleVertex(bufs, offset, 0, scaleValue), offset, 1, scaleValue),
                             offset, 2, scaleValue),
                 i + 1, numTriangles, scaleValue)

\* mutant: a buffer of exactly 84 bytes counts as binary
IsBinaryFrom84(arrayBuffer) == Len(arrayBuffer) >= 84

IsBinary(arrayBuffer) == Len(arrayBuffer) > 84

\* new Blob([newBuffer], ...) after the loop, unless the loop threw
BinaryBlob(bufs) ==
    IF bufs.threw
    THEN [threw |-> TRUE]
    ELSE [threw |-> FALSE, type |-> "application/octet-stream",
          bytes |-> bufs.newBuffer, input |-> bufs.arrayBuffer]

\* the binary branch: the outcome, the blob and the buffer that was read
ScaleBinary(arrayBuffer, scaleValue) ==
    BinaryBlob(ScaleTriangles([arrayBuffer |-> arrayBuffer, newBuffer |-> SliceCopy(arrayBuffer),
                               threw |-> FALSE], 0, GetUint32(arrayBuffer, 80), scaleValue))

\* the text branch
ScaleText(arrayBuffer, scaleValue) ==
    LET text == TextDecode(arrayBuffer)
        scaledText == ReplaceVertices(text, scaleValue)
    IN  [threw |-> FALSE, type |-> "text/plain",
         bytes |-> TextEncode(scaledText), input |-> arrayBuffer]

\* return { blob, filename }, unless the branch threw
Returned(r, filename) ==
    IF r.threw THEN r
    ELSE [threw |-> FALSE, type |-> r.type, bytes |-> r.bytes, input |-> r.input,
          filename |-> filename]

\* scaleAndDownloadFile once file.arrayBuffer() has resolved: either the
\* call throws or it returns { blob, filename }
ScaleAndDownloadFile(f, scaleValue) ==
    Returned(IF IsBinary(FileArrayBuffer(f)) THEN ScaleBinary(FileArrayBuffer(f), scaleValue)
             ELSE ScaleText(FileArrayBuffer(f), scaleValue),
             GenerateScaledFilename(FileName(f), scaleValue))


\* scaleAndDownloadFile depends on the file and the scale alone. Its results
\* for the files on the disk at the scales the controls below can set are
\* computed once; at any other scale Export computes the call itself.
ScalesTabulated == <<0, 250, 500, 1000, 1500, 2000>>

ExportsOfFile(f) ==
    SubSeq([k \in 1..Len(ScalesTabulated) |-> ScaleAndDownloadFile(f, ScalesTabulated[k])],
           1, Len(ScalesTabulated))

Exports ==
    [a |-> ExportsOfFile("a"), part |-> ExportsOfFile("part"), cut |-> ExportsOfFile("cut"),
     near |-> ExportsOfFile("near"), t84 |-> ExportsOfFile("t84"), b |-> ExportsOfFile("b"),
     e |-> ExportsOfFile("e"), notes |-> ExportsOfFile("notes")]

\* await scaleAndDownloadFile(entry.file), with the scale of the closure
Export(f, scaleValue) ==
    IF \E k \in 1..Len(ScalesTabulated) : ScalesTabulated[k] = scaleValue
    THEN Exports[f][CHOOSE k \in 1..Len(ScalesTabulated) : ScalesTabulated[k] = scaleValue]
    ELSE ScaleAndDownloadFile(f, scaleValue)

(***************************************************************************)
(* State                                                                   *)
(***************************************************************************)
VARIABLES
    files,           \* useState<FileEntry[]>: [file, id, dimensions]
    selectedFileId,  \* useState<string | null>
    scale,           \* useState(1), in thousandths
    mode,            \* ScaleControls' useState("percent")
    nextId,          \* the number of ids handed out (ids are unique)
    ops,             \* the number of user events handled so far
    runs,            \* the calls of handleDownloadSelected / handleDownloadAll
    downloads,       \* the calls of downloadBlob: what the browser has saved
    loads,           \* StlViewer: the FileReaders its load effect has started
    scene,           \* StlViewer: the model meshes in sceneRef.current, by load
    meshRef          \* StlViewer: meshRef.current, the load of the mesh or Null

vars == <<files, selectedFileId, scale, mode, nextId, ops, runs, downloads,
          loads, scene, meshRef>>

\* the refs of the viewer
preview == <<loads, scene, meshRef>>

\* selectedFileId null (ids start at 1) and dimensions null
Null == 0

NoDimensions == <<>>

\* bound of the model: the number of user events (drops, clicks, inputs) of
\* a behaviour; the reads and timers they start are not counted
MaxOps == 4

\* a user event is handled
UserEvent == ops < MaxOps /\ ops' = ops + 1

\* the file lists a drop or a file input hands to handleFilesSelect
Selections ==
    { <<"a">>, <<"notes", "part">>, <<"cut", "near">>, <<"t84", "e">>, <<"b">>, <<"notes">> }

PRESET_SCALES == <<500, 750, 1000, 1250, 1500, 2000, 3000>>

\* slider positions tried (min 0.1, max 5, step 0.01)
SliderValues == {250}

\* the preset buttons tried: 0.5, 1.5 and 2
PresetsTried == {1, 5, 6}

\* what the user types into the number input in percent mode:
\* "", "-1", "0.04", "1500"
PercentInputs == { <<>>, <<45, 49>>, <<48, 46, 48, 52>>, <<49, 53, 48, 48>> }

\* and in factor mode: "0", "0.25", "11"
FactorInputs == { <<48>>, <<48, 46, 50, 53>>, <<49, 49>> }

Init ==
    /\ files = <<>>
    /\ selectedFileId = Null
    /\ scale = 1000
    /\ mode = "percent"
    /\ nextId = 0
    /\ ops = 0
    /\ runs = <<>>
    /\ downloads = {}
    /\ loads = <<>>
    /\ scene = {}
    /\ meshRef = Null

\* files.find((f) => f.id === selectedFileId) || null
HasSelectedFile == \E i \in 1..Len(files) : files[i].id = selectedFileId

SelectedFile ==
    files[CHOOSE i \in 1..Len(files) :
              files[i].id = selectedFileId /\ \A j \in 1..(i - 1) : files[j].id # selectedFileId]

(***************************************************************************)
(* File list                                                               *)
(***************************************************************************)
\* file.name.toLowerCase().endsWith(".stl")
EndsWithStl(name) ==
    /\ Len(name) >= 4
    /\ [i \in 1..4 |-> ToLower(name[Len(name) - 4 + i])] = <<46, 115, 116, 108>>

\* Array.from(selectedFiles).filter(...)
StlFiles(selectedFiles) == SelectSeq(selectedFiles, LAMBDA f : EndsWithStl(FileName(f)))

\* stlFiles.map(...): one entry per file, each with a fresh id
NewEntries(stlFiles, firstId) ==
    [i \in 1..Len(stlFiles) |-> [file |-> stlFiles[i], id |-> firstId + i, dimensions |-> NoDimensions]]

HandleFilesSelect(selectedFiles) ==
    LET stlFiles == StlFiles(selectedFiles)
        newEntries == NewEntries(stlFiles, nextId)
    IN  /\ UserEvent
        /\ IF Len(stlFiles) = 0
           THEN UNCHANGED <<files, selectedFileId, nextId>>
           ELSE /\ files' = files \o newEntries
                /\ selectedFileId' = IF selectedFileId # Null THEN selectedFileId
                                     ELSE newEntries[1].id
                /\ nextId' = nextId + Len(stlFiles)
        /\ UNCHANGED <<scale, mode, runs, downloads>>

\* onClick={() => setSelectedFileId(entry.id)} of a listed entry
SelectEntry(i) ==
    /\ UserEvent
    /\ i \in 1..Len(files)
    /\ selectedFileId' = files[i].id
    /\ UNCHANGED <<files, scale, mode, nextId, runs, downloads>>

\* ScaleControls is rendered while the list holds a file: when the list
\* empties it is unmounted, and it mounts again with useState("percent")
ModeAfter(list) == IF Len(list) = 0 THEN "percent" ELSE mode

\* mutant: removing the selected entry leaves the selection as it is
HandleRemoveFileKeepSelection(i) ==
    LET id == files[i].id
        remaining == SelectSeq(files, LAMBDA f : f.id # id)
    IN  /\ UserEvent
        /\ files' = remaining
        /\ selectedFileId' = selectedFileId
        /\ mode' = ModeAfter(remaining)
        /\ UNCHANGED <<scale, nextId, runs, downloads>>

\* the remove button of the listed entry i: handleRemoveFile(entry.id)
HandleRemoveFile(i) ==
    LET id == files[i].id
        remaining == SelectSeq(files, LAMBDA f : f.id # id)
    IN  /\ UserEvent
        /\ files' = remaining
        /\ selectedFileId' = IF selectedFileId # id THEN selectedFileId
                             ELSE IF Len(remaining) > 0 THEN remaining[1].id
                             ELSE Null
        /\ mode' = ModeAfter(remaining)
        /\ UNCHANGED <<scale, nextId, runs, downloads>>

\* the clear button, rendered while the list holds a file
HandleClearAll ==
    /\ UserEvent
    /\ Len(files) > 0
    /\ files' = <<>>
    /\ selectedFileId' = Null
    /\ scale' = 1000
    /\ mode' = ModeAfter(<<>>)
    /\ UNCHANGED <<nextId, runs, downloads>>

(***************************************************************************)
(* Scale controls (rendered while the list holds a file)                   *)
(***************************************************************************)
ControlsShown == Len(files) > 0

SetMode(v) ==
    /\ UserEvent
    /\ ControlsShown
    /\ mode' = v
    /\ UNCHANGED <<files, selectedFileId, scale, nextId, runs, downloads>>

\* Slider onValueChange and the preset buttons: onScaleChange(value)
OnScaleChange(value) ==
    /\ UserEvent
    /\ ControlsShown
    /\ scale' = value
    /\ UNCHANGED <<files, selectedFileId, mode, nextId, runs, downloads>>

SliderChange == \E value \in SliderValues : OnScaleChange(value)

PresetClick == \E i \in PresetsTried : OnScaleChange(PRESET_SCALES[i])

\* x <= n for a parsed number x (not NaN) and a natural number n
ValueLeq(x, n) ==
    IF x.neg THEN TRUE
    ELSE IF x.dexp >= 0 THEN x.num * Pow10(x.dexp) <= n
    ELSE x.num <= n * Pow10(-x.dexp)

\* x * 10^k rounded to the nearest integer, for a parsed number x >= 0
ValueTimesPow10(x, k) ==
    IF x.dexp + k >= 0 THEN x.num * Pow10(x.dexp + k) ELSE RoundHalfUp(x.num, Pow10(-(x.dexp + k)))

\* isNaN(numValue) || numValue <= 0: handleInputChange returns at once
InputRejected(x) == x.nan \/ ValueLeq(x, 0)

\* handleInputChange calls onScaleChange
InputAccepted(m, x) == ~InputRejected(x) /\ ValueLeq(x, IF m = "factor" THEN 10 ELSE 1000)

\* the scale it passes, in thousandths: numValue itself in factor mode,
\* Math.round((numValue / 100) * 1000) / 1000 in percent mode
InputScale(m, x) == IF m = "factor" THEN ValueTimesPow10(x, 3) ELSE ValueTimesPow10(x, 1)

HandleInputChange(value) ==
    LET numValue == ParseFloat(value)
    IN  /\ UserEvent
        /\ ControlsShown
        /\ scale' = IF InputAccepted(mode, numValue) THEN InputScale(mode, numValue) ELSE scale
        /\ UNCHANGED <<files, selectedFileId, mode, nextId, runs, downloads>>

InputChange ==
    \E value \in (IF mode = "factor" THEN FactorInputs ELSE PercentInputs) :
        HandleInputChange(value)

\* originalDimensions={selectedFile?.dimensions || null}
HasDimensions == HasSelectedFile /\ Len(SelectedFile.dimensions) = 3

\* what the user types into a target-dimension input: "", "15", "0.00001",
\* "200"
DimensionInputs == { <<>>, <<49, 53>>, <<48, 46, 48, 48, 48, 48, 49>>, <<50, 48, 48>> }

\* n / d rounded up
CeilDiv(n, d) == (n + d - 1) \div d

\* targetSize / originalDimensions[axis] > 0 && <= 10, for targetSize > 0 and a
\* dimension dim in thousandths: the quotient by 0 is Infinity, and
\* targetSize <= 10 * dim is targetSize * 100 <= dim in thousandths
DimensionAccepted(x, dim) ==
    /\ ~InputRejected(x)
    /\ dim > 0
    /\ IF x.dexp + 2 >= 0 THEN x.num * Pow10(x.dexp + 2) <= dim
       ELSE CeilDiv(x.num, Pow10(-(x.dexp + 2))) <= dim

\* Math.round(newScale * 1000) / 1000 in thousandths: targetSize * 1000 / dim
\* rounded, with targetSize = x.num * 10^x.dexp and dim in thousandths
DimensionScale(x, dim) ==
    IF x.dexp + 6 >= 0 THEN RoundHalfUp(x.num * Pow10(x.dexp + 6), dim)
    ELSE RoundHalfUp(x.num, dim * Pow10(-(x.dexp + 6)))

\* handleDimensionInput(axis, value); the three inputs are rendered while
\* the selected entry has dimensions
HandleDimensionInput(axis, value) ==
    LET targetSize == ParseFloat(value)
        dim == SelectedFile.dimensions[axis]
    IN  /\ UserEvent
        /\ ControlsShown
        /\ HasDimensions
        /\ scale' = IF DimensionAccepted(targetSize, dim) THEN DimensionScale(targetSize, dim)
                    ELSE scale
        /\ UNCHANGED <<files, selectedFileId, mode, nextId, runs, downloads>>

DimensionInput == \E axis \in 1..3 : \E value \in DimensionInputs : HandleDimensionInput(axis, value)

(***************************************************************************)
(* Downloads. A run is one call of a download handler: the entries and the *)
(* scale its closure holds, the index of the entry it is working on, where *)
(* it is suspended (pc) and the events it has gone through (log).          *)
(***************************************************************************)
NewRun(kind, entries, scaleValue) ==
    [kind |-> kind, entries |-> entries, scale |-> scaleValue, i |-> 1,
     pc |-> IF Len(entries) = 0 THEN "done" ELSE "read",
     log |-> IF Len(entries) = 0 THEN <<>> ELSE <<<<"read", 1>>>>]

\* handleDownloadSelected up to its first suspension, await file.arrayBuffer()
HandleDownloadSelected ==
    /\ UserEvent
    /\ HasSelectedFile
    /\ runs' = Append(runs, NewRun("selected", <<SelectedFile>>, scale))
    /\ UNCHANGED <<files, selectedFileId, scale, mode, nextId, downloads>>

\* handleDownloadAll up to its first suspension (the button is rendered
\* while the list holds a file)
HandleDownloadAll ==
    /\ UserEvent
    /\ Len(files) > 0
    /\ runs' = Append(runs, NewRun("all", files, scale))
    /\ UNCHANGED <<files, selectedFileId, scale, mode, nextId, downloads>>

\* mutant: the timer is not awaited, the next read starts at once
AfterDownloadNoPause(run) ==
    IF run.kind = "all" /\ run.i < Len(run.entries)
    THEN [run EXCEPT !.i = @ + 1, !.pc = "read",
                     !.log = @ \o <<<<"download", run.i>>, <<"read", run.i + 1>>>>]
    ELSE [run EXCEPT !.pc = "done", !.log = Append(@, <<"download", run.i>>)]

\* the run once downloadBlob has been called for its entry i: Download
\* selected returns, Download all awaits the 100 ms timer
AfterDownload(run) ==
    IF run.kind = "all"
    THEN [run EXCEPT !.pc = "pause", !.log = Append(@, <<"download", run.i>>)]
    ELSE [run EXCEPT !.pc = "done", !.log = Append(@, <<"download", run.i>>)]

\* the run once scaleAndDownloadFile has thrown: the handler's promise
\* rejects, nothing catches it and the rest of the handler never runs
AfterThrow(run) == [run EXCEPT !.pc = "failed", !.log = Append(@, <<"throw", run.i>>)]

\* the run once the timer has fired: the next iteration of the for loop
\* starts the next read, or the loop ends
AfterPause(run) ==
    IF run.i < Len(run.entries)
    THEN [run EXCEPT !.i = @ + 1, !.pc = "read",
                     !.log = @ \o <<<<"pause", run.i>>, <<"read", run.i + 1>>>>]
    ELSE [run EXCEPT !.pc = "done", !.log = Append(@, <<"pause", run.i>>)]

\* downloadBlob(blob, filename): the browser saves the blob under filename
DownloadRecord(r, run, res) ==
    [run |-> r, i |-> run.i, file |-> run.entries[run.i].file, filename |-> res.filename,
     type |-> res.type, bytes |-> res.bytes, input |-> res.input]

\* file.arrayBuffer() resolves for run r: the rest of scaleAndDownloadFile
\* runs, then the handler's continuation calls downloadBlob
Settle(r, run, res) ==
    IF res.threw
    THEN /\ runs' = [runs EXCEPT ![r] = AfterThrow(run)]
         /\ UNCHANGED downloads
    ELSE /\ runs' = [runs EXCEPT ![r] = AfterDownload(run)]
         /\ downloads' = downloads \cup {DownloadRecord(r, run, res)}

\* mutant: the export reads the scale state as it is when the read resolves
LiveScale(run) == scale

\* the scale scaleAndDownloadFile multiplies by: that of the render its
\* handler was created in (useCallback deps [files, scale]), kept by the
\* closure for the whole run
ClosureScale(run) == run.scale

\* the entry the run is working on: fileEntry of its own list
ClosureEntry(run) == run.entries[run.i]

ReadResolved(r) ==
    /\ r \in 1..Len(runs)
    /\ runs[r].pc = "read"
    /\ Settle(r, runs[r], Export(ClosureEntry(runs[r]).file, ClosureScale(runs[r])))
    /\ UNCHANGED <<files, selectedFileId, scale, mode, nextId, ops>>

\* the setTimeout(resolve, 100) of run r fires
TimerFired(r) ==
    /\ r \in 1..Len(runs)
    /\ runs[r].pc = "pause"
    /\ runs' = [runs EXCEPT ![r] = AfterPause(runs[r])]
    /\ UNCHANGED <<files, selectedFileId, scale, mode, nextId, ops, downloads>>

(***************************************************************************)
(* Preview (StlViewer). A load is one run of the load effect that got as   *)
(* far as reader.readAsArrayBuffer: the entry it was started for (the id   *)
(* its onDimensionsCalculated closure holds), the file, whether another    *)
(* read was still pending when it started, and how far it is. The mesh a   *)
(* load adds to the scene is named by the number of the load.              *)
(***************************************************************************)
\* a size too large to count in thousandths: every target the dimension
\* inputs hold divides by it to a scale that rounds to 0, as it does by the
\* size it stands for
Huge == 2000000000

\* box.max - box.min of the vertices of a file, <<x, y, z>> in thousandths:
\* Scenario A is 10 x 10 x 0 and Scenario B 1 x 2 x 3; part.v2.STL spans
\* 0..3.4e38, -2.5..10 and 0..16777215; a file without a triangle has no
\* extent
BoxSize ==
    [a |-> <<10000, 10000, 0>>, cut |-> <<10000, 10000, 0>>, near |-> <<10000, 10000, 0>>,
     part |-> <<Huge, 12500, Huge>>, b |-> <<1000, 2000, 3000>>,
     t84 |-> <<0, 0, 0>>, e |-> <<0, 0, 0>>, notes |-> <<0, 0, 0>>]

Reading(k) == loads[k].status = "reading"

\* the load effect, run after a render in which its deps [file,
\* onDimensionsCalculated] differ from the render before: both are a
\* function of the selected entry, and onDimensionsCalculated
\* (useCallback on [selectedFileId]) changes exactly when selectedFileId
\* does. With no file it returns at once; otherwise it removes the mesh of
\* meshRef.current from the scene and starts a FileReader.
Rendered ==
    IF selectedFileId' = selectedFileId \/ ~(\E i \in 1..Len(files') : files'[i].id = selectedFileId')
    THEN UNCHANGED preview
    ELSE LET entry == files'[CHOOSE i \in 1..Len(files') : files'[i].id = selectedFileId']
         IN  /\ scene' = scene \ {meshRef}
             /\ loads' = Append(loads, [id |-> entry.id, file |-> entry.file, status |-> "reading",
                                        raced |-> \E k \in 1..Len(loads) : Reading(k)])
             /\ UNCHANGED meshRef

\* handleDimensionsCalculated as the closure of the load's effect holds it:
\* setFiles((prev) => prev.map((f) => (f.id === selectedFileId ? ...)))
HandleDimensionsCalculated(id, dimensions) ==
    files' = [i \in 1..Len(files) |->
                 IF files[i].id = id THEN [files[i] EXCEPT !.dimensions = dimensions] ELSE files[i]]

\* reader.onload of load k. loader.parse is library code: it returns a
\* geometry or throws, and the catch block leaves the scene as it is.
ReaderLoaded(k) ==
    /\ k \in 1..Len(loads)
    /\ Reading(k)
    /\ \E parsed \in BOOLEAN :
           IF parsed
           THEN /\ HandleDimensionsCalculated(loads[k].id, BoxSize[loads[k].file])
                /\ scene' = scene \cup {k}
                /\ meshRef' = k
                /\ loads' = [loads EXCEPT ![k].status = "loaded"]
           ELSE /\ loads' = [loads EXCEPT ![k].status = "failed"]
                /\ UNCHANGED <<files, scene, meshRef>>
    /\ UNCHANGED <<selectedFileId, scale, mode, nextId, ops, runs, downloads>>

\* The exports: the page with the preview left aside, and with it the
\* target-dimension inputs, which are rendered once the preview has
\* measured the selected file.
Next ==
    \/ \E selectedFiles \in Selections : HandleFilesSelect(selectedFiles) /\ UNCHANGED preview
    \/ \E i \in 1..Len(files) : SelectEntry(i) /\ UNCHANGED preview
    \/ \E i \in 1..Len(files) : HandleRemoveFile(i) /\ UNCHANGED preview
    \/ HandleClearAll /\ UNCHANGED preview
    \/ \E v \in {"factor", "percent"} : SetMode(v) /\ UNCHANGED preview
    \/ SliderChange /\ UNCHANGED preview
    \/ PresetClick /\ UNCHANGED preview
    \/ InputChange /\ UNCHANGED preview
    \/ HandleDownloadSelected /\ UNCHANGED preview
    \/ HandleDownloadAll /\ UNCHANGED preview
    \/ \E r \in 1..Len(runs) : ReadResolved(r) /\ UNCHANGED preview
    \/ \E r \in 1..Len(runs) : TimerFired(r) /\ UNCHANGED preview

\* The file list, the scale controls and the preview: every render runs
\* the load effect, and the reads it starts end in any order.
PreviewNext ==
    \/ \E selectedFiles \in Selections : HandleFilesSelect(selectedFiles) /\ Rendered
    \/ \E i \in 1..Len(files) : SelectEntry(i) /\ Rendered
    \/ \E i \in 1..Len(files) : HandleRemoveFile(i) /\ Rendered
    \/ HandleClearAll /\ Rendered
    \/ \E v \in {"factor", "percent"} : SetMode(v) /\ UNCHANGED preview
    \/ SliderChange /\ UNCHANGED preview
    \/ PresetClick /\ UNCHANGED preview
    \/ InputChange /\ UNCHANGED preview
    \/ DimensionInput /\ UNCHANGED preview
    \/ \E k \in 1..Len(loads) : ReaderLoaded(k)

Spec == Init /\ [][Next]_vars

PreviewSpec == Init /\ [][PreviewNext]_vars

(***************************************************************************)
(* Vocabulary of the properties                                            *)
(***************************************************************************)
\* the bytes of a file as they are on disk
Original(f) == Disk[f].bytes

\* the triangle count a binary buffer declares
Declared(buf) == GetUint32(buf, 80)

\* the offsets of the vertex coordinates of the first n triangle records
CoordOffsets(n) ==
    { 84 + 50 * i + 12 + 12 * v + 4 * c : i \in 0..(n - 1), v \in 0..2, c \in 0..2 }

\* offset o lies in one of the 36 vertex-coordinate bytes of a record among
\* the first n
IsVertexByte(o, n) == o >= 84 /\ (o - 84) \div 50 < n /\ (o - 84) % 50 >= 12 /\ (o - 84) % 50 < 48

\* the position of the leading bit of m * 2^e
TopBit(m, e) == BitLength(m) + e

\* |m * 2^e| is at least 2^128 - 2^103, from where binary32 rounds to infinity
RoundsToInfinity(m, e) ==
    \/ TopBit(m, e) > 128
    \/ /\ TopBit(m, e) = 128
       /\ IF e >= 103 THEN m * Pow2(e - 103) >= 33554431 ELSE m \div Pow2(103 - e) >= 33554431

\* the float32 o is the product m * 2^e (m > 0) to within half a unit in
\* its last place
WithinHalfUlp(o, m, e) ==
    IF o.m = 0
    THEN e <= -149 /\ m * Pow2(e + 152) <= 4
    ELSE /\ TopBit(o.m, o.e) - TopBit(m, e) \in {-1, 0, 1}
         /\ LET c == IF o.e < e THEN o.e ELSE e
                A == o.m * Pow2(o.e - c)
                B == m * Pow2(e - c)
            IN  2 * Abs(A - B) <= Pow2(o.e - c)

\* the float32 o is the float32 x multiplied by factor (thousandths, a
\* multiple of 125), as binary32 can hold the product
IsScaled(o, x, factor) ==
    LET p == factor \div 125
    IN  IF x.k = "nan" THEN o.k = "nan"
        ELSE IF x.k = "inf" THEN (IF p = 0 THEN o.k = "nan" ELSE o = x)
        ELSE IF x.m = 0 \/ p = 0 THEN o = [k |-> "fin", s |-> x.s, m |-> 0, e |-> -149]
        ELSE IF o.k = "inf" THEN o.s = x.s /\ RoundsToInfinity(x.m * p, x.e - 3)
        ELSE /\ o.k = "fin"
             /\ o.s = x.s
             /\ ~RoundsToInfinity(x.m * p, x.e - 3)
             /\ WithinHalfUlp(o, x.m * p, x.e - 3)

\* every vertex coordinate of the first n records of out is that of in
\* multiplied by factor
CoordsScaled(in, out, n, factor) ==
    \A o \in CoordOffsets(n) : IsScaled(GetFloat32(out, o), GetFloat32(in, o), factor)

\* the scale a download was made with
ScaleOf(d) == runs[d.run].scale

BinaryDownloads == { d \in downloads : d.type = "application/octet-stream" }

\* what was exported, whatever the run: the file, the scale and the bytes saved
Exported(ds) == { [file |-> d.file, scale |-> ScaleOf(d), bytes |-> d.bytes] : d \in ds }

\* out has the bytes of in everywhere outside the vertex coordinates of the
\* first n records
FrameKept(in, out, n) ==
    /\ Len(out) = Len(in)
    /\ \A j \in 1..Len(out) : ~IsVertexByte(j - 1, n) => out[j] = in[j]

\* entry i of run r has been settled: its export returned or threw
Settled(r, i) ==
    \E k \in 1..Len(runs[r].log) : runs[r].log[k] \in {<<"download", i>>, <<"throw", i>>}

Threw(r, i) == \E k \in 1..Len(runs[r].log) : runs[r].log[k] = <<"throw", i>>

\* the exports that have been settled, as <<run, index>>
SettledExports ==
    UNION { { <<r, i>> : i \in { j \in 1..Len(runs[r].entries) : Settled(r, j) } } :
            r \in 1..Len(runs) }

DownloadsOf(r, i) == { d \in downloads : d.run = r /\ d.i = i }

(***************************************************************************)
(* C1. Binary export with a full set of records: every vertex coordinate   *)
(* of every declared triangle is the input coordinate at the same offset   *)
(* multiplied by the scale (as binary32 holds the product), in the input's *)
(* order; Scenario A scaled by 2 gives (0,0,0),(20,0,0),(0,20,0).          *)
(***************************************************************************)
FullBinary(f) == IsBinary(Original(f)) /\ Len(Original(f)) >= 84 + 50 * Declared(Original(f))

\* (0,0,0),(20,0,0),(0,20,0) as 36 little-endian bytes
ScenarioAScaledBy2 ==
    << 0, 0, 0, 0, 0, 0, 0, 0, 0, 0, 0, 0,
       0, 0, 160, 65, 0, 0, 0, 0, 0, 0, 0, 0,
       0, 0, 0, 0, 0, 0, 160, 65, 0, 0, 0, 0 >>

\* C1: every download of a binary file with all its declared records has each
\* vertex coordinate equal to the input coordinate times the scale, in place
C1_VerticesScaled ==
    \A x \in Exported(downloads) :
        FullBinary(x.file) =>
            /\ CoordsScaled(Original(x.file), x.bytes, Declared(Original(x.file)), x.scale)
            /\ (x.file = "a" /\ x.scale = 2000) => SubSeq(x.bytes, 97, 132) = ScenarioAScaledBy2

\* a two-triangle file was exported at 1.5, where products need rounding
C1_Witness ==
    \E d \in downloads :
        /\ d.file = "part" /\ ScaleOf(d) = 1500
        /\ GetFloat32(d.bytes, 146) # GetFloat32(Original("part"), 146)

(***************************************************************************)
(* C2. Binary export: the output has the length of the input and every     *)
(* byte outside the vertex coordinates of the declared records (header,    *)
(* count, normals, attribute fields) equals the input byte.                *)
(***************************************************************************)
\* C2: a binary download has the input's length and the input's bytes
\* everywhere outside the vertex coordinates
C2_FramePreserved ==
    \A x \in Exported(BinaryDownloads) :
        FrameKept(Original(x.file), x.bytes, Declared(Original(x.file)))

\* a file with a non-zero header, normals and attributes was exported at a
\* scale other than 1, and its vertex bytes did change
C2_Witness ==
    \E d \in BinaryDownloads :
        /\ d.file = "part" /\ ScaleOf(d) # 1000
        /\ d.bytes # Original("part")

(***************************************************************************)
(* C3. The output encoding matches the input encoding: a binary STL file   *)
(* is exported as a binary file and a text STL file, of any length, as a   *)
(* text file. (Stated of every settled export.)                            *)
(***************************************************************************)
\* what each file on the disk holds
DiskEncoding ==
    [a |-> "binary", part |-> "binary", cut |-> "binary", near |-> "binary",
     t84 |-> "text", b |-> "text", e |-> "text", notes |-> "text"]

TypeOfEncoding(enc) == IF enc = "binary" THEN "application/octet-stream" ELSE "text/plain"

\* C3: every settled export of a text file or of a complete binary file has
\* produced a download of the input's own encoding
C3_EncodingMatches ==
    \A ri \in SettledExports :
        LET f == runs[ri[1]].entries[ri[2]].file
        IN  (DiskEncoding[f] = "text" \/ FullBinary(f)) =>
                \E d \in DownloadsOf(ri[1], ri[2]) : d.type = TypeOfEncoding(DiskEncoding[f])

(***************************************************************************)
(* C4. A text export rewrites each vertex occurrence with the coordinates  *)
(* multiplied by the scale at 6 decimals and keeps all other text; the     *)
(* Scenario B input scaled by 0.5 yields the three vertex lines of the     *)
(* scenario with every other line unchanged.                               *)
(***************************************************************************)
\* Scenario B's expected output: "solid t\nfacet normal 0 0 1\nouter loop\n
\* vertex 0.500000 1.000000 1.500000\nvertex 0.000000 0.000000 0.000000\n
\* vertex 0.500000 0.500000 0.500000\nendloop\nendfacet\nendsolid t\n"
Vertex000 ==
    << 118, 101, 114, 116, 101, 120, 32, 48, 46, 48, 48, 48, 48, 48, 48, 32,
       48, 46, 48, 48, 48, 48, 48, 48, 32, 48, 46, 48, 48, 48, 48, 48, 48, 10 >>

VertexHalves ==
    << 118, 101, 114, 116, 101, 120, 32, 48, 46, 53, 48, 48, 48, 48, 48, 32,
       48, 46, 53, 48, 48, 48, 48, 48, 32, 48, 46, 53, 48, 48, 48, 48, 48, 10 >>

ScenarioBScaledByHalf ==
    SubSeq(TextB, 1, 38)
    \o << 118, 101, 114, 116, 101, 120, 32, 48, 46, 53, 48, 48, 48, 48, 48, 32,
          49, 46, 48, 48, 48, 48, 48, 48, 32, 49, 46, 53, 48, 48, 48, 48, 48, 10 >>
    \o Vertex000 \o VertexHalves
    \o SubSeq(TextB, 99, 126)

\* the 84-byte text scaled by 0.5: its header lines, "vertex 0.750000
\* -10.000000 0.125000\n", the two other vertex lines, "endloop\n"
Text84ScaledByHalf ==
    SubSeq(Text84, 1, 30)
    \o << 118, 101, 114, 116, 101, 120, 32, 48, 46, 55, 53, 48, 48, 48, 48, 32,
          45, 49, 48, 46, 48, 48, 48, 48, 48, 48, 32, 48, 46, 49, 50, 53, 48, 48, 48, 10 >>
    \o Vertex000 \o VertexHalves
    \o SubSeq(Text84, 77, 84)

ExpectedTextAtHalf(f) == IF f = "b" THEN ScenarioBScaledByHalf ELSE Text84ScaledByHalf

\* C4: every settled export of a text STL at 0.5 has produced the input text
\* with its vertex lines rewritten at 6 decimals and nothing else changed
C4_TextVerticesRewritten ==
    \A ri \in SettledExports :
        LET f == runs[ri[1]].entries[ri[2]].file
        IN  (f \in {"b", "t84"} /\ runs[ri[1]].scale = 500) =>
                \E d \in DownloadsOf(ri[1], ri[2]) : d.bytes = ExpectedTextAtHalf(f)

(***************************************************************************)
(* C5. A buffer is handled as binary exactly when it is longer than 84     *)
(* bytes: an export of a longer file either throws in the binary loop or   *)
(* yields an octet-stream blob, and an export of a file of 84 bytes or     *)
(* fewer (down to none) never throws and yields a text/plain blob.         *)
(***************************************************************************)
\* C5: the binary branch is taken exactly by the buffers longer than 84 bytes
C5_BinaryIffLongerThan84 ==
    \A ri \in SettledExports :
        LET f == runs[ri[1]].entries[ri[2]].file
        IN  IF Len(Original(f)) > 84
            THEN \A d \in DownloadsOf(ri[1], ri[2]) : d.type = "application/octet-stream"
            ELSE /\ ~Threw(ri[1], ri[2])
                 /\ \E d \in DownloadsOf(ri[1], ri[2]) : d.type = "text/plain"

\* a file of exactly 84 bytes, the empty file and a file of more than 84
\* bytes have all been exported
C5_Witness ==
    /\ \E d \in downloads : d.file = "t84" /\ d.type = "text/plain"
    /\ \E d \in downloads : d.file = "e" /\ d.bytes = <<>>
    /\ \E d \in downloads : Len(Original(d.file)) > 84

(***************************************************************************)
(* C6. A binary buffer whose declared count needs more bytes than it has   *)
(* (84 + 50 * N > length) is never exported: no blob, no download.         *)
(***************************************************************************)
Truncated(f) == IsBinary(Original(f)) /\ 84 + 50 * Declared(Original(f)) > Len(Original(f))

\* C6: no download exists of a binary file whose declared count exceeds its bytes
C6_TruncatedNeverDownloaded ==
    \A d \in downloads : ~(DiskEncoding[d.file] = "binary" /\ Truncated(d.file))

(***************************************************************************)
(* C7. No export is made with a scale that is zero or negative: no file is *)
(* emitted whose vertices were multiplied by a factor <= 0.                *)
(***************************************************************************)
\* C7: no download was made at a scale <= 0
C7_NoExportAtNonPositiveScale == \A d \in downloads : ScaleOf(d) > 0

(***************************************************************************)
(* C8. An export does not mutate its input: the buffer it read still       *)
(* equals the file's bytes after the call, and a binary output made after  *)
(* earlier exports of the same file is the original geometry scaled by its *)
(* own factor alone; two exports of a file at one factor give the same     *)
(* bytes.                                                                  *)
(***************************************************************************)
\* C8: after each export the input buffer equals the file's bytes, and each
\* output is the original scaled by that export's factor alone
C8_InputNotMutated ==
    /\ \A d \in downloads : d.input = Original(d.file)
    /\ \A d1, d2 \in downloads :
           (d1.file = d2.file /\ d1.run < d2.run) =>
               /\ ScaleOf(d1) = ScaleOf(d2) => d1.bytes = d2.bytes
               /\ FullBinary(d2.file) =>
                      CoordsScaled(d2.input, d2.bytes, Declared(d2.input), ScaleOf(d2))

\* one binary file was exported twice, at different factors
C8_Witness ==
    \E d1, d2 \in BinaryDownloads :
        /\ d1.file = d2.file /\ FullBinary(d1.file)
        /\ d1.run < d2.run
        /\ ScaleOf(d1) # ScaleOf(d2)
        /\ d1.bytes # d2.bytes

(***************************************************************************)
(* C9. The download filename is <basename>_<round(factor*100)>percent.     *)
(* <extension>: basename is what precedes the last dot of the original     *)
(* name, extension what follows it, in its original case.                  *)
(***************************************************************************)
LastDot(name) == CHOOSE i \in 1..Len(name) : name[i] = 46 /\ \A j \in (i + 1)..Len(name) : name[j] # 46

\* p is scale * 100 rounded to the nearest integer (thousandths / 10)
IsRoundedPercent(p, scaleValue) == 10 * p - 5 <= scaleValue /\ scaleValue < 10 * p + 5

\* C9: every download is named <basename>_<round(scale*100)>percent.<extension>,
\* cut at the last dot of the original name
C9_Filename ==
    \A d \in downloads :
        LET name == FileName(d.file)
            dot == LastDot(name)
        IN  \E p \in (ScaleOf(d) \div 10)..(ScaleOf(d) \div 10 + 1) :
                /\ IsRoundedPercent(p, ScaleOf(d))
                /\ d.filename = SubSeq(name, 1, dot - 1) \o <<95>> \o Dec(p)
                                    \o KwPercentDot \o SubSeq(name, dot + 1, Len(name))

\* part.v2.STL exported at 1.5 was saved as part.v2_150percent.STL
C9_Witness ==
    \E d \in downloads :
        /\ d.file = "part"
        /\ d.filename = << 112, 97, 114, 116, 46, 118, 50, 95, 49, 53, 48 >>
                            \o KwPercentDot \o << 83, 84, 76 >>

(***************************************************************************)
(* C10. Within one Download all run the exports are serialized: the files  *)
(* are taken in list order, the read of file i+1 starts only after the     *)
(* download of file i and the pause after it, and each file is downloaded  *)
(* exactly once.                                                           *)
(***************************************************************************)
\* event b may directly follow event a in the log of a run over n entries
MayFollow(a, b, n) ==
    \/ a[1] = "read" /\ b \in {<<"download", a[2]>>, <<"throw", a[2]>>}
    \/ a[1] = "download" /\ b = <<"pause", a[2]>>
    \/ a[1] = "pause" /\ a[2] < n /\ b = <<"read", a[2] + 1>>

Serialized(run) ==
    /\ Len(run.log) >= 1 => run.log[1] = <<"read", 1>>
    /\ \A k \in 1..(Len(run.log) - 1) : MayFollow(run.log[k], run.log[k + 1], Len(run.entries))

DownloadEvents(run, i) == { k \in 1..Len(run.log) : run.log[k] = <<"download", i>> }

Ended(run) == run.pc \in {"done", "failed"}

AllRuns == { r \in 1..Len(runs) : runs[r].kind = "all" }

\* the run's files are all binary STL files (no file of the run is a text
\* file that the length test sends down the binary branch)
OverBinaryFiles(run) == \A i \in 1..Len(run.entries) : DiskEncoding[run.entries[i].file] = "binary"

ExportReturns(run, i) == ~Export(run.entries[i].file, run.scale).threw

\* C11, of the Download all runs over binary files: once the run has ended
\* (it went through its whole list, or its promise rejected and nothing of
\* it is left to run), every complete file of its list, whose export
\* returns a blob, has been downloaded
C11_OthersStillDownloaded ==
    \A r \in AllRuns :
        (Ended(runs[r]) /\ OverBinaryFiles(runs[r])) =>
            \A i \in 1..Len(runs[r].entries) :
                (FullBinary(runs[r].entries[i].file) /\ ExportReturns(runs[r], i)) =>
                    DownloadsOf(r, i) # {}

(***************************************************************************)
(* C15. A Download all run exports the files that were in the list when it *)
(* was started, all with the scale in effect when it was started: changing *)
(* the scale or the list while the run is suspended between files changes  *)
(* neither the factor nor the files of the remaining exports.              *)
(***************************************************************************)
\* what download d of run must be: the export of the file of entry d.i of
\* the run's list, at the run's scale
IsExportOf(d, run) ==
    /\ d.i \in 1..Len(run.entries)
    /\ d.file = run.entries[d.i].file
    /\ LET res == ScaleAndDownloadFile(d.file, run.scale)
       IN  ~res.threw /\ d.bytes = res.bytes /\ d.filename = res.filename

CaptureKept ==
    /\ \A r \in 1..Len(runs) :
           runs[r].kind = "all" =>
               /\ runs'[r].entries = runs[r].entries
               /\ runs'[r].scale = runs[r].scale
    /\ \A r \in (Len(runs) + 1)..Len(runs') :
           runs'[r].kind = "all" => runs'[r].entries = files /\ runs'[r].scale = scale
    /\ \A d \in downloads' \ downloads :
           runs[d.run].kind = "all" =>
               /\ d.i = runs[d.run].i
               /\ IsExportOf(d, runs[d.run])
    /\ \A r \in 1..Len(runs') :
           (runs'[r].kind = "all" /\ runs'[r].pc = "done") =>
               \A i \in 1..Len(runs'[r].entries) :
                   \E d \in downloads' : d.run = r /\ d.i = i

C12_ScaleInRange == scale > 0 /\ scale <= 10000

(***************************************************************************)
(* C13. The selection follows the file list: it names a listed entry or    *)
(* nothing, and it names an entry while there is one; it leaves an entry   *)
(* only for the first of those that remain, and new entries do not move    *)
(* it.                                                                     *)
(***************************************************************************)
Ids(list) == { list[i].id : i \in 1..Len(list) }

SelectionValid ==
    /\ selectedFileId = Null \/ selectedFileId \in Ids(files)
    /\ Len(files) > 0 => selectedFileId # Null

\* a step that removes the selected entry and leaves others
RemovesSelected ==
    /\ selectedFileId \in Ids(files)
    /\ selectedFileId \notin Ids(files')
    /\ Len(files') > 0

\* a step that adds entries to the list
AddsFiles == Len(files') > Len(files)

SelectionStep ==
    /\ RemovesSelected => selectedFileId' = files'[1].id
    /\ AddsFiles /\ selectedFileId # Null => selectedFileId' = selectedFileId

\* C13: the selected id is null or the id of a listed entry, and non-null
\* while the list is non-empty; removing the selected entry selects the
\* first remaining one, and adding files keeps an existing selection
C13_SelectionFollowsList == []SelectionValid /\ [][SelectionStep]_vars

\* cut.stl and near.stl were added and cut.stl, the selected entry, removed:
\* near.stl, the first remaining entry, is selected
C13_Witness ==
    /\ ops = 2
    /\ Len(files) = 1
    /\ files[1].id = 2
    /\ selectedFileId = 2

(***************************************************************************)
(* C14. Reads of the preview that overlap. Once no read is pending, and    *)
(* when the reads were of complete binary files that all parsed, the scene *)
(* is to hold the mesh of the selected file alone, and each entry the      *)
(* dimensions its own read reported.                                       *)
(***************************************************************************)
Overlapped == \E k \in 1..Len(loads) : loads[k].raced

AllLoaded ==
    \A k \in 1..Len(loads) :
        /\ loads[k].status = "loaded"
        /\ DiskEncoding[loads[k].file] = "binary"
        /\ FullBinary(loads[k].file)

\* the scene holds one mesh, made from the file of the selected entry
OneMeshOfSelected ==
    \E k \in 1..Len(loads) : scene = {k} /\ loads[k].id = selectedFileId

\* every listed entry a read was made for holds what that read reported
DimensionsOnOwnEntry ==
    \A k \in 1..Len(loads) : \A i \in 1..Len(files) :
        files[i].id = loads[k].id => files[i].dimensions = BoxSize[loads[k].file]

\* C14: after reads that overlapped have all completed, the scene holds
\* exactly one mesh, that of the selected file, and each read's dimensions
\* are on the entry of that read
C14_OneMeshAfterRace ==
    Overlapped /\ AllLoaded /\ HasSelectedFile => OneMeshOfSelected /\ DimensionsOnOwnEntry
====
